---- MODULE Spec2Model ----
(***************************************************************************)
(* Model of the zen client library (rolfsimoes/zen):                       *)
(*   - Draft.upload_file, the file-upload workflow with bounded retry      *)
(*     (src/zen/record.py);                                                *)
(*   - InvenioRDMClient.iter_pagination, the next-link page generator      *)
(*     (src/zen/invenioRDM.py);                                            *)
(*   - Depositions.list, the eager page-numbered listing (src/zen/api.py); *)
(*   - the entity operations refresh, update, publish, edit and delete of  *)
(*     Draft (src/zen/record.py, src/zen/draft.py) over the HTTP transport *)
(*     (src/zen/invenioRDM.py);                                            *)
(*   - load_or_create_draft, the local-file bound draft (src/zen/draft.py).*)
(* The library is single-threaded and blocking: one operation runs at a    *)
(* time, so an operation starts only while the others are idle.            *)
(***************************************************************************)
EXTENDS Integers, Sequences, FiniteSets, TLC

(***************************************************************************)
(* Bounds of the model.                                                    *)
(***************************************************************************)
MaxRetries == 3
MaxDelay == 1
MaxPages == 3
MaxLimit == 3
MaxListPages == 3
MaxPageSize == 3
MaxLoadCalls == 2
MaxHits == 1

\* max_retries values tried: the positive ones and, since the parameter is
\* an unchecked int, zero and a negative one.
RetryValues == (0 - 1)..MaxRetries

VARIABLES
    \* ---- Draft.upload_file ----
    upPc,         \* position in upload_file
    filename,     \* kind of the `filename` argument
    max_retries,  \* argument
    min_delay,    \* argument
    max_delay,    \* argument
    uploaded,     \* local `uploaded`
    retries,      \* local `retries`
    tempfile,     \* TRUE iff local `tempfile` is not None
    tempExists,   \* TRUE iff the temporary file exists on disk
    slot,         \* server-side state of the file slot
    exc,          \* exception leaving the try body (line 387-411)
    outcome,      \* what the caller of upload_file observes
    calls,        \* number of calls issued, per kind
    failures,     \* number of times the except handler was entered
    sleepLog,     \* the delays slept, in order
    upLog,        \* the uploads, commits and sleeps of the retry loop, in order
    \* ---- InvenioRDMClient.iter_pagination ----
    itPc,         \* state of the generator object
    srvNext,      \* server: page -> page its links.next points to (0: no next)
    srvHits,      \* server: page -> number of items in its hits.hits
    itPage,       \* local `page`
    itI,          \* local `i`
    itHasLimit,   \* TRUE iff `limit` is not None
    itLimit,      \* argument `limit` when given
    itError,      \* TRUE iff a page fetch raised out of the generator
    nextCalls,    \* number of next() calls made by the consumer
    gets,         \* number of HTTP GETs issued by the generator
    getLog,       \* the URLs of those GETs, in order
    yielded,      \* the pages yielded, in order
    \* ---- Depositions.list ----
    lsPc,         \* position in Depositions.list
    status,       \* argument ("None" when omitted)
    sort,         \* argument ("None" when omitted)
    srvSizes,     \* server: the sizes of its non-empty result pages, in order
    queryPage,    \* query['page'] (0: the key is absent)
    items,        \* local `items`
    lsResult,     \* the returned list
    lsOutcome,    \* what the caller of list observes
    lsCalls,      \* number of transport calls (list_depositions GETs)
    lsLog,        \* the `page` parameter of each of those calls, in order
    \* ---- entity operations of Draft ----
    enPc,         \* position in the entity operation
    enCls,        \* the class of the entity: record.py's or draft.py's Draft
    enOp,         \* the operation invoked
    enStep,       \* index of the operation's next request
    enData,       \* the entity's snapshot `_data` (which JSON it holds)
    enFiles,      \* the snapshot's `files` entry
    enNew,        \* the snapshot of the Draft built by record.py's edit
    enLog,        \* the requests issued, in order, with status and result
    enOutcome,    \* what the caller of the operation observes
    enResult,     \* the object the operation returned
    enError,      \* the API error raised: status, response body, description
    \* ---- load_or_create_draft ----
    ldPc,         \* position in load_or_create_draft
    ldFile,       \* the local file `filename`: its kind and, for a saved draft, id and content
    srvDrafts,    \* server: the content of the drafts it holds, by id
    ldGets,       \* GETs issued by the call in progress
    ldPosts,      \* POSTs issued by the call in progress
    ldCreated,    \* drafts created on the server by all calls so far
    ldOutcome,    \* what the caller observes
    ldResult,     \* the value returned
    ldCallNo,     \* number of calls made with this filename
    \* ---- _PagedData ----
    pdPc,         \* position of the consumer of a _PagedData
    pdMode,       \* how it is consumed: by method calls or through `pages`
    pdMethod,     \* the method running, or run last
    pdPage,       \* `_page`, the current page (0: None)
    pdVisited,    \* the pages the methods returned, in order
    pdNextOk,     \* next_page() calls that succeeded since the last first_page()
    pdCalls,      \* number of first_page() / next_page() calls made
    pdOutcome     \* what the consumer observes at the end

upVars == <<upPc, filename, max_retries, min_delay, max_delay, uploaded, retries,
            tempfile, tempExists, slot, exc, outcome, calls, failures, sleepLog,
            upLog>>

itVars == <<itPc, srvNext, srvHits, itPage, itI, itHasLimit, itLimit, itError,
            nextCalls, gets, getLog, yielded>>

lsVars == <<lsPc, status, sort, srvSizes, queryPage, items, lsResult,
            lsOutcome, lsCalls, lsLog>>

enVars == <<enPc, enCls, enOp, enStep, enData, enFiles, enNew, enLog,
            enOutcome, enResult, enError>>

ldVars == <<ldPc, ldFile, srvDrafts, ldGets, ldPosts, ldCreated, ldOutcome,
            ldResult, ldCallNo>>

pdVars == <<pdPc, pdMode, pdMethod, pdPage, pdVisited, pdNextOk, pdCalls,
            pdOutcome>>

vars == <<upVars, itVars, lsVars, enVars, ldVars, pdVars>>

NoCalls == [create |-> 0, download |-> 0, upload |-> 0, commit |-> 0,
            delete |-> 0, refresh |-> 0, remove |-> 0]

Count(kind) == [calls EXCEPT ![kind] = @ + 1]

UploadIdle == upPc = "idle"

PaginationIdle == itPc = "idle"

ListIdle == lsPc = "idle"

EntityIdle == enPc = "idle"

LoadIdle == ldPc = "idle"

PagedIdle == pdPc = "idle"

AllIdle ==
    /\ UploadIdle /\ PaginationIdle /\ ListIdle /\ EntityIdle /\ LoadIdle
    /\ PagedIdle

InitUpload ==
    /\ upPc = "idle"
    /\ filename = "none"
    /\ max_retries = 0
    /\ min_delay = 0
    /\ max_delay = 0
    /\ uploaded = FALSE
    /\ retries = 0
    /\ tempfile = FALSE
    /\ tempExists = FALSE
    /\ slot = "none"
    /\ exc = "none"
    /\ outcome = "none"
    /\ calls = NoCalls
    /\ failures = 0
    /\ sleepLog = <<>>
    /\ upLog = <<>>

(***************************************************************************)
(* Draft.upload_file, record.py:372-418.                                   *)
(***************************************************************************)

\* record.py:379: os.path.isfile(filename) or filename.startswith(accepted_schemas)
ValidSourceAny(fn) == TRUE
ValidSource(fn) == fn \in {"local", "remote"}

\* record.py:389: filename.startswith(accepted_schemas)
IsRemote(fn) == fn = "remote"

\* Line 385: files.create stands before the try, so when its POST raises the
\* error leaves upload_file at once, past the finally block.
AfterCreateFailureInTry == "finally"
AfterCreateFailure == "done"

\* Lines 372-385 and 388, 396: validation, slot creation (one POST, outside
\* the try), then the locals of the try body.
UploadFile(fn, mr, mn, mx, postOk) ==
    /\ AllIdle
    /\ filename' = fn
    /\ max_retries' = mr
    /\ min_delay' = mn
    /\ max_delay' = mx
    /\ uploaded' = FALSE
    /\ tempfile' = FALSE
    /\ IF ~ValidSource(fn)
       THEN /\ outcome' = "ValueError"
            /\ upPc' = "done"
            /\ UNCHANGED <<calls, slot, retries>>
       ELSE /\ calls' = Count("create")
            /\ IF postOk
               THEN /\ slot' = "pending"
                    /\ retries' = 1
                    /\ upPc' = IF IsRemote(fn) THEN "download" ELSE "upload"
                    /\ UNCHANGED outcome
               ELSE /\ outcome' = "APIError"
                    /\ upPc' = AfterCreateFailure
                    /\ UNCHANGED <<slot, retries>>
    /\ UNCHANGED <<tempExists, exc, failures, sleepLog, upLog>>
    /\ UNCHANGED <<itVars, lsVars, enVars, ldVars, pdVars>>

\* utils.download_file(url, tempfile): on success the file is on disk; on
\* failure a partial file may or may not have been created.
download_file(ok) == IF ok THEN {TRUE} ELSE {TRUE, FALSE}

\* Lines 389-394: the remote source is downloaded to the temporary path;
\* `tempfile` is bound before the download is attempted.
Download(ok) ==
    /\ upPc = "download"
    /\ tempfile' = TRUE
    /\ calls' = Count("download")
    /\ tempExists' \in download_file(ok)
    /\ IF ok
       THEN /\ upPc' = "upload"
            /\ UNCHANGED exc
       ELSE /\ exc' = "DownloadError"
            /\ upPc' = "finally"
    /\ UNCHANGED <<filename, max_retries, min_delay, max_delay, uploaded, retries,
                   slot, outcome, failures, sleepLog, upLog>>
    /\ UNCHANGED <<itVars, lsVars, enVars, ldVars, pdVars>>

\* Line 406: the test that ends the retry loop.
RetriesExhaustedOff(r, mr) == r > mr
RetriesExhausted(r, mr) == r >= mr

\* Lines 406-410: the raise stands before the sleep, so a failure is
\* followed by a sleep exactly when the retries are not exhausted.
SleepAfterFailureAlways(exhausted) == TRUE
SleepAfterFailure(exhausted) == ~exhausted

\* Lines 397-402: the next turn of the while loop runs the whole try body,
\* whichever of its two calls had failed.
RetryFromFailedStep(pc) == pc
RetryFrom(pc) == "upload"

\* Lines 404-411: the except handler of one attempt whose call `ev` failed.
HandleFailure(d, ev) ==
    /\ failures' = failures + 1
    /\ IF SleepAfterFailure(RetriesExhausted(retries, max_retries))
       THEN /\ d \in min_delay..max_delay
            /\ sleepLog' = Append(sleepLog, d)
            /\ upLog' = upLog \o <<ev, "sleep">>
       ELSE /\ upLog' = Append(upLog, ev)
            /\ UNCHANGED sleepLog
    /\ IF RetriesExhausted(retries, max_retries)
       THEN /\ exc' = "MaxRetries"
            /\ upPc' = "finally"
            /\ UNCHANGED retries
       ELSE /\ retries' = retries + 1
            /\ upPc' = RetryFrom(upPc)
            /\ UNCHANGED exc

\* Line 400: file.upload, one PUT of the whole file to the `content` link.
Upload(ok, d) ==
    /\ upPc = "upload"
    /\ calls' = Count("upload")
    /\ IF ok
       THEN /\ upPc' = "commit"
            /\ upLog' = Append(upLog, "upload_ok")
            /\ UNCHANGED <<exc, retries, failures, sleepLog>>
       ELSE HandleFailure(d, "upload_fail")
    /\ UNCHANGED <<filename, max_retries, min_delay, max_delay, uploaded,
                   tempfile, tempExists, slot, outcome>>
    /\ UNCHANGED <<itVars, lsVars, enVars, ldVars, pdVars>>

\* Lines 402-403: file.commit, one POST to the `commit` link.
Commit(ok, d) ==
    /\ upPc = "commit"
    /\ calls' = Count("commit")
    /\ IF ok
       THEN /\ uploaded' = TRUE
            /\ slot' = "committed"
            /\ upPc' = "finally"
            /\ upLog' = Append(upLog, "commit_ok")
            /\ UNCHANGED <<exc, retries, failures, sleepLog>>
       ELSE /\ HandleFailure(d, "commit_fail")
            /\ UNCHANGED <<uploaded, slot>>
    /\ UNCHANGED <<filename, max_retries, min_delay, max_delay,
                   tempfile, tempExists, outcome>>
    /\ UNCHANGED <<itVars, lsVars, enVars, ldVars, pdVars>>

\* What leaves upload_file when the finally block itself did not raise.
Propagate(e) == IF e = "none" THEN "returned" ELSE e

\* Lines 413-416: the cleanup call chosen by `uploaded`.
CleanupKindBoth(up) == IF up THEN {"refresh", "delete"} ELSE {"delete"}
CleanupKindAlwaysDelete(up) == {"delete"}
CleanupKind(up) == IF up THEN {"refresh"} ELSE {"delete"}

\* Lines 412-418: the finally block. The cleanup call (a GET of the files
\* link or a DELETE of the slot) may raise, which skips os.remove.
Finally(httpOk) ==
    /\ upPc = "finally"
    /\ upPc' = "done"
    /\ LET kinds == CleanupKind(uploaded)
           c1 == [k \in DOMAIN calls |->
                     IF k \in kinds THEN calls[k] + 1 ELSE calls[k]]
       IN IF ~httpOk
          THEN /\ outcome' = "CleanupError"
               /\ calls' = c1
               /\ UNCHANGED <<slot, tempExists>>
          ELSE /\ slot' = IF "delete" \in kinds THEN "deleted" ELSE slot
               /\ IF tempfile
                  THEN /\ calls' = [c1 EXCEPT !.remove = @ + 1]
                       /\ tempExists' = FALSE
                       /\ outcome' = IF tempExists THEN Propagate(exc)
                                     ELSE "FileNotFoundError"
                  ELSE /\ calls' = c1
                       /\ outcome' = Propagate(exc)
                       /\ UNCHANGED tempExists
    /\ UNCHANGED <<filename, max_retries, min_delay, max_delay, uploaded, retries,
                   tempfile, exc, failures, sleepLog, upLog>>
    /\ UNCHANGED <<itVars, lsVars, enVars, ldVars, pdVars>>

Sources == {"local", "remote", "invalid"}

\* A caller invokes upload_file with some source, max_retries and delays
\* (min_delay <= max_delay, the interval the backoff is drawn from).
CallUploadFile ==
    /\ AllIdle
    /\ \E fn \in Sources, mr \in RetryValues, mn \in 0..MaxDelay, postOk \in BOOLEAN :
          \E mx \in mn..MaxDelay : UploadFile(fn, mr, mn, mx, postOk)

NextUpload ==
    \/ CallUploadFile
    \/ \E ok \in BOOLEAN : Download(ok)
    \/ \E ok \in BOOLEAN, d \in 0..MaxDelay : Upload(ok, d)
    \/ \E ok \in BOOLEAN, d \in 0..MaxDelay : Commit(ok, d)
    \/ \E httpOk \in BOOLEAN : Finally(httpOk)

(***************************************************************************)
(* InvenioRDMClient.iter_pagination, invenioRDM.py:316-338.                *)
(* A page is identified by its number; the URL in a page's links.next is   *)
(* the number of the page it addresses. The server's chain of next links   *)
(* is arbitrary: it may end, or lead back to a page already served.        *)
(***************************************************************************)
Pages == 1..MaxPages

\* The `data` argument: the page the listing call returned first.
StartPage == 1

\* A consumer stops calling next() after this many calls; more than any
\* ending iteration over MaxPages pages or with a limit <= MaxLimit needs.
MaxCalls == MaxPages + MaxLimit + 2

InitPagination ==
    /\ itPc = "idle"
    /\ srvNext = [p \in Pages |-> 0]
    /\ srvHits = [p \in Pages |-> 0]
    /\ itPage = 0
    /\ itI = 0
    /\ itHasLimit = FALSE
    /\ itLimit = 0
    /\ itError = FALSE
    /\ nextCalls = 0
    /\ gets = 0
    /\ getLog = <<>>
    /\ yielded = <<>>

\* Line 333: 'links' in page and 'next' in page['links']
HasNext(p) == srvNext[p] # 0

\* Line 333: limit is None or i < limit
WithinLimitOff(i) == ~itHasLimit \/ i <= itLimit
WithinLimitIgnored(i) == TRUE
WithinLimit(i) == ~itHasLimit \/ i < itLimit

\* Line 334: url = page['links']['next']
NextUrlOfData(p) == srvNext[StartPage]
NextUrl(p) == srvNext[p]

\* Lines 335-336: a bad status raises out of the generator body, which has no
\* handler around the GET: the generator is finished.
AfterRaiseRetry == "suspended"
AfterRaise == "finished"

\* Line 316: calling the generator function binds the arguments and creates
\* a generator; no line of the body runs before the first next(). Nothing
\* has been asked of, fetched or yielded by the new generator.
CreateGenerator(nx, hits, hasLimit, limit) ==
    /\ itPc' = "created"
    /\ srvNext' = nx
    /\ srvHits' = hits
    /\ itHasLimit' = hasLimit
    /\ itLimit' = limit
    /\ itPage' = 0
    /\ itI' = 0
    /\ itError' = FALSE
    /\ nextCalls' = 0
    /\ gets' = 0
    /\ getLog' = <<>>
    /\ yielded' = <<>>

\* A caller invokes iter_pagination and consumes the generator itself.
IterPagination(nx, hits, hasLimit, limit) ==
    /\ AllIdle
    /\ CreateGenerator(nx, hits, hasLimit, limit)
    /\ UNCHANGED <<upVars, lsVars, enVars, ldVars, pdVars>>

\* One next() on the generator: the body runs from where it is suspended
\* to the next yield, to its end, or to a raise (lines 330-338).
GeneratorNext(ok) ==
    /\ itPc \in {"created", "suspended", "finished"}
    /\ nextCalls < MaxCalls
    /\ nextCalls' = nextCalls + 1
    /\ CASE itPc = "created" ->
              /\ itPage' = StartPage
              /\ yielded' = Append(yielded, StartPage)
              /\ itI' = 0
              /\ itPc' = "suspended"
              /\ UNCHANGED <<gets, getLog, itError>>
         [] itPc = "suspended" ->
              IF HasNext(itPage) /\ WithinLimit(itI)
              THEN /\ gets' = gets + 1
                   /\ getLog' = Append(getLog, NextUrl(itPage))
                   /\ IF ok
                      THEN /\ itPage' = NextUrl(itPage)
                           /\ yielded' = Append(yielded, NextUrl(itPage))
                           /\ itI' = itI + 1
                           /\ UNCHANGED <<itPc, itError>>
                      ELSE /\ itError' = TRUE
                           /\ itPc' = AfterRaise
                           /\ UNCHANGED <<itPage, yielded, itI>>
              ELSE /\ itPc' = "finished"
                   /\ UNCHANGED <<itPage, itI, itError, gets, getLog, yielded>>
         [] itPc = "finished" ->
              UNCHANGED <<itPc, itPage, itI, itError, gets, getLog, yielded>>
    /\ UNCHANGED <<srvNext, srvHits, itHasLimit, itLimit>>

\* One next() call made by the caller of iter_pagination.
ItNext(ok) ==
    /\ PagedIdle
    /\ GeneratorNext(ok)
    /\ UNCHANGED <<upVars, lsVars, enVars, ldVars, pdVars>>

\* A caller invokes iter_pagination on the first page of some server (any
\* next links, every page holding the same number of items, up to MaxHits),
\* with or without a limit (a number of pages, 0..MaxLimit).
CallIterPagination ==
    /\ AllIdle
    /\ \E nx \in [Pages -> 0..MaxPages], size \in 0..MaxHits,
          hasLimit \in BOOLEAN :
          \E limit \in (IF hasLimit THEN 0..MaxLimit ELSE {0}) :
             IterPagination(nx, [p \in Pages |-> size], hasLimit, limit)

NextPagination ==
    \/ CallIterPagination
    \/ \E ok \in BOOLEAN : ItNext(ok)

(***************************************************************************)
(* _PagedData, api.py:414-475. The object keeps the page it was built on,  *)
(* a pagination iterator over it and the current page; first_page and      *)
(* next_page move the current page, and `pages` is a generator that calls  *)
(* first_page once and next_page forever.                                  *)
(***************************************************************************)
MaxPagedCalls == 4

\* api.py:443 and 449: the iterator is always created with limit=1.
PagedLimit == 1

\* A server holding a chain of n pages: page p links to p + 1, the last
\* page has no next link.
Chain(n) == [p \in Pages |-> IF p < n THEN p + 1 ELSE 0]

NoHits == [p \in Pages |-> 0]

InitPaged ==
    /\ pdPc = "idle"
    /\ pdMode = "none"
    /\ pdMethod = "none"
    /\ pdPage = 0
    /\ pdVisited = <<>>
    /\ pdNextOk = 0
    /\ pdCalls = 0
    /\ pdOutcome = "none"

\* Lines 415-421 and 443: the constructor stores the start page and calls
\* first_page(), which creates the iterator; its next() is PagedNext. The
\* caller then uses the object through its methods or through `pages`.
PagedData(n, mode) ==
    /\ CreateGenerator(Chain(n), NoHits, TRUE, PagedLimit)
    /\ pdPc' = "next"
    /\ pdMode' = mode
    /\ pdMethod' = "__init__"
    /\ UNCHANGED <<pdPage, pdVisited, pdNextOk, pdCalls, pdOutcome>>
    /\ UNCHANGED <<upVars, lsVars, enVars, ldVars>>

\* Line 443: first_page() replaces the iterator by a new one over the
\* start page. In `pages` (line 469) it is the first call made.
FirstPage ==
    /\ pdPc = "ready"
    /\ pdCalls < MaxPagedCalls
    /\ pdMode = "pages" => pdCalls = 0
    /\ CreateGenerator(srvNext, srvHits, TRUE, PagedLimit)
    /\ pdPc' = "next"
    /\ pdMethod' = "first_page"
    /\ pdCalls' = pdCalls + 1
    /\ UNCHANGED <<pdMode, pdPage, pdVisited, pdNextOk, pdOutcome>>
    /\ UNCHANGED <<upVars, lsVars, enVars, ldVars>>

\* Lines 448-450: next_page() keeps the iterator it finds (the constructor
\* has set one, so line 449 does not run). In `pages` (lines 470-471) it is
\* every call after the first.
NextPage ==
    /\ pdPc = "ready"
    /\ pdCalls < MaxPagedCalls
    /\ pdMode = "pages" => pdCalls >= 1
    /\ pdPc' = "next"
    /\ pdMethod' = "next_page"
    /\ pdCalls' = pdCalls + 1
    /\ UNCHANGED <<pdMode, pdPage, pdVisited, pdNextOk, pdOutcome>>
    /\ UNCHANGED <<upVars, itVars, lsVars, enVars, ldVars>>

\* Lines 444 and 450: `self._page = next(self._pages_iter)`. A yielded page
\* becomes the current page and the method returns; an error of the GET
\* propagates; an exhausted iterator raises StopIteration, which inside the
\* `pages` generator reaches its consumer as RuntimeError.
PagedNext(ok) ==
    /\ pdPc = "next"
    /\ GeneratorNext(ok)
    /\ IF Len(yielded') > Len(yielded)
       THEN /\ pdPage' = itPage'
            /\ pdPc' = "ready"
            /\ pdVisited' = IF pdMethod = "__init__" THEN pdVisited
                            ELSE Append(pdVisited, itPage')
            /\ pdNextOk' = IF pdMethod = "next_page" THEN pdNextOk + 1 ELSE 0
            /\ UNCHANGED pdOutcome
       ELSE /\ pdPc' = "done"
            /\ pdOutcome' = IF itError' THEN "APIError"
                            ELSE IF pdMode = "pages" THEN "RuntimeError"
                            ELSE "StopIteration"
            /\ UNCHANGED <<pdPage, pdVisited, pdNextOk>>
    /\ UNCHANGED <<pdMode, pdMethod, pdCalls>>
    /\ UNCHANGED <<upVars, lsVars, enVars, ldVars>>

\* A caller builds a _PagedData over the first page of a chain of 1 to
\* MaxPages pages.
CallPagedData ==
    /\ AllIdle
    /\ \E n \in 1..MaxPages, mode \in {"methods", "pages"} : PagedData(n, mode)

NextPaged ==
    \/ CallPagedData
    \/ FirstPage
    \/ NextPage
    \/ \E ok \in BOOLEAN : PagedNext(ok)

(***************************************************************************)
(* Depositions.list, api.py:325-366, over list_depositions,                *)
(* invenioRDM.py:340-359. The server holds the result pages; a request     *)
(* without `page` is answered with page 1, a request for a page past the   *)
(* last with the empty list. An item is identified by its rank in the      *)
(* whole result.                                                           *)
(***************************************************************************)

\* api.py:318 and 320
status_options == {"draft", "published"}
sort_options == {"bestmatch", "-bestmatch", "mostrecent", "-mostrecent"}

StatusValues == {"None", "other"} \cup status_options
SortValues == {"None", "other"} \cup sort_options

InitList ==
    /\ lsPc = "idle"
    /\ status = "None"
    /\ sort = "None"
    /\ srvSizes = <<>>
    /\ queryPage = 0
    /\ items = <<>>
    /\ lsResult = <<>>
    /\ lsOutcome = "none"
    /\ lsCalls = 0
    /\ lsLog = <<>>

\* api.py:348: status is not None and not status in status_options
StatusRejected(st) == st # "None" /\ st \notin status_options

\* api.py:351: sort is not None and not sort in sort_options
SortRejectedNever(so) == FALSE
SortRejected(so) == so # "None" /\ so \notin sort_options

RECURSIVE SumTo(_, _)
\* Number of items on the first n pages of the server.
SumTo(sizes, n) == IF n = 0 THEN 0 ELSE SumTo(sizes, n - 1) + sizes[n]

\* The items the server holds on page n.
ServerPage(n) ==
    IF n \in 1..Len(srvSizes)
    THEN [k \in 1..srvSizes[n] |-> SumTo(srvSizes, n - 1) + k]
    ELSE <<>>

\* invenioRDM.py:357-359: the JSON list answered to GET
\* /api/deposit/depositions with the query's `page` (absent: the first page).
list_depositions(page) == ServerPage(IF page = 0 THEN 1 ELSE page)

\* api.py:362-364: query['page'] for the next request.
NextQueryPageSame(page) == IF page = 0 THEN 1 ELSE page + 1
NextQueryPageSkip(page) == (IF page = 0 THEN 2 ELSE page) + 1
NextQueryPage(page) == (IF page = 0 THEN 1 ELSE page) + 1

\* dataset.Deposition(api, item): the entity wrapping one item.
Deposition(item) == [data |-> item]

\* api.py:366
WrapItems(its) == [k \in 1..Len(its) |-> Deposition(its[k])]

\* api.py:348-358: validation, then the query and the empty `items`.
List(st, so, sizes) ==
    /\ AllIdle
    /\ status' = st
    /\ sort' = so
    /\ srvSizes' = sizes
    /\ items' = <<>>
    /\ queryPage' = 0
    /\ IF StatusRejected(st) \/ SortRejected(so)
       THEN /\ lsOutcome' = "ValueError"
            /\ lsPc' = "done"
       ELSE /\ lsPc' = "request"
            /\ UNCHANGED lsOutcome
    /\ UNCHANGED <<lsResult, lsCalls, lsLog>>
    /\ UNCHANGED <<upVars, itVars, enVars, ldVars, pdVars>>

\* api.py:359-366: one list_depositions request and what the loop does with
\* its answer: extend `items` and advance the page, or return.
ListRequest(ok) ==
    /\ lsPc = "request"
    /\ lsCalls' = lsCalls + 1
    /\ lsLog' = Append(lsLog, queryPage)
    /\ IF ~ok
       THEN /\ lsOutcome' = "APIError"
            /\ lsPc' = "done"
            /\ UNCHANGED <<items, queryPage, lsResult>>
       ELSE LET page_results == list_depositions(queryPage)
            IN IF Len(page_results) > 0
               THEN /\ items' = items \o page_results
                    /\ queryPage' = NextQueryPage(queryPage)
                    /\ UNCHANGED <<lsPc, lsOutcome, lsResult>>
               ELSE /\ lsResult' = WrapItems(items)
                    /\ lsOutcome' = "ok"
                    /\ lsPc' = "done"
                    /\ UNCHANGED <<items, queryPage>>
    /\ UNCHANGED <<status, sort, srvSizes>>
    /\ UNCHANGED <<upVars, itVars, enVars, ldVars, pdVars>>

\* The servers tried: up to MaxListPages pages of 1..MaxPageSize items.
ServerShapes == UNION {[1..n -> 1..MaxPageSize] : n \in 0..MaxListPages}

\* A caller invokes list with some status and sort, against some server.
CallList ==
    /\ AllIdle
    /\ \E st \in StatusValues, so \in SortValues, sizes \in ServerShapes :
          List(st, so, sizes)

NextList ==
    \/ CallList
    \/ \E ok \in BOOLEAN : ListRequest(ok)

(***************************************************************************)
(* The HTTP transport, invenioRDM.py:161-209 (api.py:201-279 is the same): *)
(* get, post, put and delete each send one request and test its status.    *)
(***************************************************************************)

\* invenioRDM.py:61-104 (api.py:65-108): the keys of the bad-status table.
bad_status_codes == {400, 401, 403, 404, 405, 409, 415, 422, 429, 500}

\* Statuses a server can answer with: the table's, some 2xx ones, and two
\* error statuses the table does not list.
SuccessCodes == {200, 201, 202, 204}

UnlistedCodes == {502, 503}

StatusCodes == bad_status_codes \cup SuccessCodes \cup UnlistedCodes

\* invenioRDM.py:168, 181, 194, 207: `if response.status_code in
\* InvenioRDMError.bad_status_codes: raise InvenioRDMError(response)`.
Raises(code) == code \in bad_status_codes

\* invenioRDM.py:61-104 (api.py:65-108): the `description` entries of the
\* bad-status table.
bad_status_descriptions ==
    400 :> "Request failed." @@
    401 :> "Request failed, due to an invalid access token." @@
    403 :> "Request failed, due to missing authorization (e.g. deleting an already submitted upload or missing scopes for your access token)." @@
    404 :> "Request failed, due to the resource not being found." @@
    405 :> "Request failed, due to unsupported HTTP method." @@
    409 :> "Request failed, due to the current state of the resource (e.g. edit a deposition which is not fully integrated)." @@
    415 :> "Request failed, due to missing or invalid request header Content-Type." @@
    422 :> "Resumption tokens are only valid for 2 minutes." @@
    429 :> "Request failed, due to rate limiting." @@
    500 :> "Request failed, due to an internal server error."

\* The bodies a response can carry: text that is not JSON, JSON that is not
\* an object, or a JSON object with or without `message` and with `errors`
\* absent, an empty list, a list whose first entry lacks `field` or
\* `message`, or a list whose first entry has both.
Bodies ==
    {[parse |-> "invalid", message |-> "none", errors |-> "none"],
     [parse |-> "list", message |-> "none", errors |-> "none"]}
    \cup [parse : {"object"}, message : {"none", "msg"},
          errors : {"none", "empty", "malformed", "wellformed"}]

\* invenioRDM.py:122-123: content = response.json(); message =
\* content['message'], which raises unless the body is a JSON object with
\* that key.
HasMessage(body) == body.parse = "object" /\ body.message # "none"

\* invenioRDM.py:125-126: error = content['errors'][0] and its `field` and
\* `message` entries, which raise unless all are there.
HasFirstError(body) == body.errors = "wellformed"

\* invenioRDM.py:112-131 (api.py:116-135): the description of the error, as
\* the sequence of its parts: the table's text, or the message, or the
\* message followed by the field and the message of errors[0].
get_response_description_single_try(code, body) ==
    IF HasMessage(body) /\ HasFirstError(body)
    THEN <<body.message, "error.field", "error.message">>
    ELSE <<bad_status_descriptions[code]>>
get_response_description(code, body) ==
    IF HasMessage(body)
    THEN IF HasFirstError(body)
         THEN <<body.message, "error.field", "error.message">>
         ELSE <<body.message>>
    ELSE <<bad_status_descriptions[code]>>

NoError ==
    [status |-> 0, description |-> <<>>,
     body |-> [parse |-> "none", message |-> "none", errors |-> "none"]]

\* invenioRDM.py:106-110: the error built from a response.
InvenioRDMError(code, body) ==
    [status |-> code, body |-> body,
     description |-> get_response_description(code, body)]

(***************************************************************************)
(* The entity operations: Record.refresh and Draft.update, publish, edit,  *)
(* delete of record.py:192-216, 303-370, and the same five operations of   *)
(* the Draft of draft.py:216-300.                                          *)
(***************************************************************************)
InitEntity ==
    /\ enPc = "idle"
    /\ enCls = "none"
    /\ enOp = "none"
    /\ enStep = 0
    /\ enData = "held"
    /\ enFiles = "held"
    /\ enNew = [data |-> "none", files |-> "none"]
    /\ enLog = <<>>
    /\ enOutcome = "none"
    /\ enResult = "none"
    /\ enError = NoError

EntityClasses == {"record.Draft", "draft.Draft"}

EntityOps == {"refresh", "update", "publish", "edit", "delete"}

Req(verb, link) == [verb |-> verb, link |-> link]

\* The requests of one operation, in the order the code issues them.
\* record.py addresses the links of the snapshot; edit builds a Draft from
\* the answer, whose constructor (line 190) calls refresh_files, and calls
\* refresh_files once more (line 350). draft.py addresses paths: an f-string
\* with the id in refresh and update, the literal text with `{id}` in
\* publish, edit and delete.
Plan(cls, op) ==
    IF cls = "record.Draft"
    THEN CASE op = "refresh" -> <<Req("GET", "self"), Req("GET", "files")>>
           [] op = "update"  -> <<Req("PUT", "self")>>
           [] op = "publish" -> <<Req("POST", "publish")>>
           [] op = "edit"    -> <<Req("POST", "self"), Req("GET", "files"),
                                  Req("GET", "files")>>
           [] op = "delete"  -> <<Req("DELETE", "self")>>
    ELSE CASE op = "refresh" -> <<Req("GET", "draft_path")>>
           [] op = "update"  -> <<Req("PUT", "draft_path")>>
           [] op = "publish" -> <<Req("POST", "publish_template")>>
           [] op = "edit"    -> <<Req("POST", "draft_template")>>
           [] op = "delete"  -> <<Req("DELETE", "draft_template")>>

\* What each operation returns: the entity itself, the Draft built by
\* record.py's edit, or None.
Returns(cls, op) ==
    IF op = "delete" THEN "None"
    ELSE IF op = "edit" /\ cls = "record.Draft" THEN "new" ELSE "self"

\* The JSON a successful request is answered with.
ResponseJson(req) ==
    CASE req.verb = "GET" /\ req.link \in {"self", "draft_path"} -> "fetched"
      [] req.verb = "GET" /\ req.link = "files" -> "listing"
      [] req.verb = "POST" /\ req.link \in {"publish", "publish_template"} -> "published"
      [] req.verb = "POST" /\ req.link \in {"self", "draft_template"} -> "created"
      [] OTHER -> "none"

\* record.py:329-333: publish drops the answer of its POST; draft.py:267-268:
\* publish stores it as the snapshot.
PublishStoresResponse(cls) == cls = "draft.Draft"

\* record.py:344-352: edit builds a new Draft from the answer of its POST and
\* leaves self._data alone; draft.py:282-284: edit stores the answer in self.
EditStoresResponseAlways(cls) == TRUE
EditStoresResponse(cls) == cls = "draft.Draft"

\* The snapshot <<_data, files entry>> after the step-th request of the
\* operation succeeded. A whole record JSON brings its own `files` entry
\* ("summary"); refresh_files stores the files listing there.
SnapshotAfter(cls, op, step, json) ==
    IF cls = "record.Draft"
    THEN CASE op = "refresh" /\ step = 1 -> <<json, "summary">>
           [] op = "refresh" /\ step = 2 -> <<enData, json>>
           [] op = "publish" /\ PublishStoresResponse(cls) -> <<json, "summary">>
           [] op = "edit" /\ step = 1 /\ EditStoresResponse(cls) -> <<json, "summary">>
           [] OTHER -> <<enData, enFiles>>
    ELSE CASE op = "refresh" -> <<json, "summary">>
           [] op = "edit" /\ EditStoresResponse(cls) -> <<json, "summary">>
           [] op = "publish" /\ PublishStoresResponse(cls) -> <<json, "summary">>
           [] OTHER -> <<enData, enFiles>>

\* record.py:346-350: the Draft built by edit from the answer of the POST,
\* then its `files` entry after each refresh_files.
NewDraftAfter(cls, op, step, json) ==
    IF cls = "record.Draft" /\ op = "edit"
    THEN IF step = 1 THEN [data |-> json, files |-> "summary"]
         ELSE [enNew EXCEPT !.files = json]
    ELSE enNew

\* An operation of an entity is invoked.
EntityOp(cls, op) ==
    /\ AllIdle
    /\ enPc' = "run"
    /\ enCls' = cls
    /\ enOp' = op
    /\ enStep' = 1
    /\ UNCHANGED <<enData, enFiles, enNew, enLog, enOutcome, enResult, enError>>
    /\ UNCHANGED <<upVars, itVars, lsVars, ldVars, pdVars>>

\* No handler surrounds the requests of an operation: the error of the
\* transport leaves the operation at once.
AfterBadStatusRetry == "run"
AfterBadStatus == "done"

\* One request of the operation, answered with status `code` and `body`, and
\* what the operation does with the answer.
EntityRequest(code, body) ==
    /\ enPc = "run"
    /\ LET plan == Plan(enCls, enOp)
           req == plan[enStep]
           json == ResponseJson(req)
           snap == SnapshotAfter(enCls, enOp, enStep, json)
       IN /\ enLog' = Append(enLog, [verb |-> req.verb, link |-> req.link,
                                     status |-> code, raised |-> Raises(code)])
          /\ IF Raises(code)
             THEN /\ enOutcome' = "APIError"
                  /\ enError' = InvenioRDMError(code, body)
                  /\ enPc' = AfterBadStatus
                  /\ UNCHANGED <<enStep, enData, enFiles, enNew, enResult>>
             ELSE /\ UNCHANGED enError
                  /\ enData' = snap[1]
                  /\ enFiles' = snap[2]
                  /\ enNew' = NewDraftAfter(enCls, enOp, enStep, json)
                  /\ IF enStep = Len(plan)
                     THEN /\ enPc' = "done"
                          /\ enOutcome' = "returned"
                          /\ enResult' = Returns(enCls, enOp)
                          /\ UNCHANGED enStep
                     ELSE /\ enStep' = enStep + 1
                          /\ UNCHANGED <<enPc, enOutcome, enResult>>
    /\ UNCHANGED <<enCls, enOp>>
    /\ UNCHANGED <<upVars, itVars, lsVars, ldVars, pdVars>>

CallEntityOp ==
    /\ AllIdle
    /\ \E cls \in EntityClasses, op \in EntityOps : EntityOp(cls, op)

NextEntity ==
    \/ CallEntityOp
    \/ \E code \in StatusCodes, body \in Bodies : EntityRequest(code, body)

(***************************************************************************)
(* load_or_create_draft, draft.py:81-91, over load_draft (64-79),          *)
(* get_draft (54-62) and create_draft (44-52).                             *)
(***************************************************************************)
NoFile == [kind |-> "absent", id |-> 0, content |-> "none"]

NoResult == [kind |-> "none", id |-> 0, content |-> "none"]

InitLoad ==
    /\ ldPc = "idle"
    /\ ldFile = NoFile
    /\ srvDrafts = <<>>
    /\ ldGets = 0
    /\ ldPosts = 0
    /\ ldCreated = 0
    /\ ldOutcome = "none"
    /\ ldResult = NoResult
    /\ ldCallNo = 0

\* Contents a draft can have, on the server or in the saved copy.
Contents == {"v1", "v2"}

\* The local file before the first call: absent, a saved draft (of the
\* server's draft 1), or JSON that is not a mapping or has no `id`.
LocalFileStates ==
    {NoFile,
     [kind |-> "not_mapping", id |-> 0, content |-> "none"],
     [kind |-> "no_id", id |-> 0, content |-> "none"]}
    \cup {[kind |-> "draft", id |-> 1, content |-> c] : c \in Contents}

\* The server before the first call: no draft, or draft 1 with some content.
Servers == {<<>>} \cup {<<c>> : c \in Contents}

\* utils.load_json(filename): the parsed JSON of the file; FileNotFoundError
\* when there is no such file.
load_json(file) == IF file.kind = "absent" THEN "FileNotFoundError" ELSE file.kind

\* draft.py:69-79: what load_draft does before the GET: the file's JSON is
\* tested for being a dict with an `id`.
LoadCheckFallsBack(file) ==
    IF load_json(file) = "draft" THEN "ok" ELSE "FileNotFoundError"
LoadCheck(file) ==
    CASE load_json(file) = "FileNotFoundError" -> "FileNotFoundError"
      [] load_json(file) = "not_mapping" -> "TypeError"
      [] load_json(file) = "no_id" -> "ValueError"
      [] OTHER -> "ok"

\* draft.py:59-62: get_draft returns the JSON the server answered with,
\* which is the server's draft of that id.
FetchedContentFromDisk(file, srv) == file.content
FetchedContent(file, srv) == srv[file.id]

\* draft.py:50-52: create_draft returns `data`, the dict of response.json().
CreateDraftReturns == "dict"

\* draft.py:133-142: to_json is a method of _BaseRecord; a dict has none.
HasToJson(kind) == kind = "Draft"

\* One call of load_or_create_draft(filename, token).
LoadOrCreateDraft ==
    /\ ldPc' = "load"
    /\ ldCallNo' = ldCallNo + 1
    /\ ldGets' = 0
    /\ ldPosts' = 0
    /\ ldOutcome' = "none"
    /\ ldResult' = NoResult
    /\ UNCHANGED ldCreated
    /\ UNCHANGED <<upVars, itVars, lsVars, enVars, pdVars>>

\* draft.py:87-88 and 69-79: load_draft up to its GET. A missing file sends
\* load_or_create_draft to its except branch; a TypeError or ValueError
\* leaves it.
LoadDraft ==
    /\ ldPc = "load"
    /\ LET r == LoadCheck(ldFile)
       IN CASE r = "ok" -> ldPc' = "get" /\ UNCHANGED ldOutcome
            [] r = "FileNotFoundError" -> ldPc' = "create" /\ UNCHANGED ldOutcome
            [] OTHER -> ldPc' = "done" /\ ldOutcome' = r
    /\ UNCHANGED <<ldFile, srvDrafts, ldGets, ldPosts, ldCreated, ldResult, ldCallNo>>
    /\ UNCHANGED <<upVars, itVars, lsVars, enVars, pdVars>>

\* draft.py:77 and 54-62: get_draft, one GET of /api/records/{id}/draft.
GetDraft(ok) ==
    /\ ldPc = "get"
    /\ ok => ldFile.id \in 1..Len(srvDrafts)
    /\ ldGets' = ldGets + 1
    /\ ldPc' = "done"
    /\ IF ok
       THEN /\ ldResult' = [kind |-> "dict", id |-> ldFile.id,
                            content |-> FetchedContent(ldFile, srvDrafts)]
            /\ ldOutcome' = "returned"
       ELSE /\ ldOutcome' = "APIError"
            /\ UNCHANGED ldResult
    /\ UNCHANGED <<ldFile, srvDrafts, ldPosts, ldCreated, ldCallNo>>
    /\ UNCHANGED <<upVars, itVars, lsVars, enVars, pdVars>>

\* draft.py:89-91 and 44-52: create_draft, one POST of /api/records, then
\* draft.to_json(filename) on the value it returned, then the return.
CreateDraft(ok) ==
    /\ ldPc = "create"
    /\ ldPosts' = ldPosts + 1
    /\ ldPc' = "done"
    /\ IF ~ok
       THEN /\ ldOutcome' = "APIError"
            /\ UNCHANGED <<ldFile, srvDrafts, ldCreated, ldResult>>
       ELSE LET id == Len(srvDrafts) + 1
            IN /\ srvDrafts' = Append(srvDrafts, "new")
               /\ ldCreated' = ldCreated + 1
               /\ IF HasToJson(CreateDraftReturns)
                  THEN /\ ldFile' = [kind |-> "draft", id |-> id, content |-> "new"]
                       /\ ldResult' = [kind |-> CreateDraftReturns, id |-> id,
                                       content |-> "new"]
                       /\ ldOutcome' = "returned"
                  ELSE /\ ldOutcome' = "AttributeError"
                       /\ UNCHANGED <<ldFile, ldResult>>
    /\ UNCHANGED <<ldGets, ldCallNo>>
    /\ UNCHANGED <<upVars, itVars, lsVars, enVars, pdVars>>

\* The first call, with some local file and some server.
CallLoadOrCreateDraft ==
    /\ AllIdle
    /\ \E file \in LocalFileStates, srv \in Servers :
          /\ ldFile' = file
          /\ srvDrafts' = srv
          /\ LoadOrCreateDraft

\* A later call with the same filename.
CallLoadOrCreateDraftAgain ==
    /\ ldPc = "done"
    /\ ldCallNo < MaxLoadCalls
    /\ UNCHANGED <<ldFile, srvDrafts>>
    /\ LoadOrCreateDraft

NextLoad ==
    \/ CallLoadOrCreateDraft
    \/ CallLoadOrCreateDraftAgain
    \/ LoadDraft
    \/ \E ok \in BOOLEAN : GetDraft(ok)
    \/ \E ok \in BOOLEAN : CreateDraft(ok)

(***************************************************************************)
(* Properties of Draft.upload_file.                                        *)
(***************************************************************************)

\* C1: for max_retries >= 1, when the retry loop ran and every upload+commit
\* attempt failed, exactly max_retries attempts were made, the loop was left
\* by the "Max retries exceeded." RuntimeError, and the slot deletion was
\* called exactly once (and the listing was not refreshed). The caller sees
\* that RuntimeError unless the DELETE itself raised, whose error replaces it.
C1_ExhaustedRetries ==
    /\ (max_retries >= 1 /\ upPc # "idle") => calls.upload <= max_retries
    /\ (upPc = "done" /\ calls.upload >= 1 /\ ~uploaded /\ max_retries >= 1) =>
          /\ calls.upload = max_retries
          /\ failures = max_retries
          /\ exc = "MaxRetries"
          /\ calls.delete = 1
          /\ calls.refresh = 0
          /\ outcome \in {"MaxRetries", "CleanupError"}

C1_Witness ==
    /\ upPc = "done"
    /\ max_retries = 3
    /\ calls.upload = 3
    /\ failures = 3
    /\ ~uploaded
    /\ outcome = "MaxRetries"
    /\ calls.delete = 1

\* C2: when the first f attempts fail and attempt f+1 succeeds (f <
\* max_retries), upload_file leaves the loop after exactly f+1 attempts with
\* no exception pending, never calls the slot deletion, and calls the
\* refresh of the file listing once; it returns normally unless that
\* refresh raised.
C2_SuccessAfterRetries ==
    /\ uploaded => /\ calls.delete = 0
                   /\ calls.upload = failures + 1
                   /\ exc = "none"
                   /\ slot = "committed"
                   /\ (max_retries >= 1 => failures < max_retries)
    /\ (upPc = "done" /\ uploaded) =>
          /\ calls.refresh = 1
          /\ outcome \in {"returned", "CleanupError"}

C2_Witness ==
    /\ upPc = "done"
    /\ uploaded
    /\ max_retries = 3
    /\ failures = 2
    /\ calls.upload = 3
    /\ calls.refresh = 1
    /\ calls.delete = 0
    /\ outcome = "returned"

\* C3: on every exit of upload_file after the slot was created, exactly one
\* cleanup call has been issued: the refresh of the listing iff an attempt
\* succeeded, the slot deletion otherwise; no cleanup call is issued before
\* the exit, and the slot stays pending only if the deletion call itself
\* failed.
C3_ExactlyOneCleanup ==
    /\ upPc \notin {"done"} => calls.refresh + calls.delete = 0
    /\ (upPc = "done" /\ slot # "none") =>
          /\ calls.refresh + calls.delete = 1
          /\ (calls.refresh = 1 <=> uploaded)
          /\ (calls.delete = 1 <=> ~uploaded)
          /\ (slot = "pending" => outcome = "CleanupError")

C3_Witness ==
    /\ upPc = "done"
    /\ exc = "DownloadError"
    /\ calls.upload = 0
    /\ calls.delete = 1
    /\ calls.refresh = 0
    /\ slot = "deleted"

\* C4: whenever upload_file set up a temporary download file, the file is
\* gone when upload_file has returned or raised, on every exit path.
C4_TempFileRemoved ==
    (upPc = "done" /\ tempfile) => ~tempExists

(***************************************************************************)
(* Properties of iter_pagination.                                          *)
(***************************************************************************)
RECURSIVE Walk(_, _)
\* The pages met from page p by following next links, at most `fuel` of them.
Walk(p, fuel) ==
    IF p = 0 \/ fuel = 0 THEN <<>> ELSE <<p>> \o Walk(srvNext[p], fuel - 1)

\* The chain the server serves from the starting page, and whether it ends.
ChainPages == Walk(StartPage, MaxPages)
ChainFinite == srvNext[ChainPages[Len(ChainPages)]] = 0

Prefix(sq, n) == SubSeq(sq, 1, n)

\* C5: over a chain of N pages whose last page has no links.next, an
\* iterator consumed to its end without a limit has yielded exactly the N
\* pages in chain order; with limit = k < N it has yielded exactly the first
\* k+1 pages; what is yielded is at every moment a prefix of the chain.
C5_YieldsChain ==
    (itPc # "idle" /\ ChainFinite) =>
       /\ Len(yielded) <= Len(ChainPages)
       /\ yielded = Prefix(ChainPages, Len(yielded))
       /\ (itPc = "finished" /\ ~itError) =>
             IF itHasLimit /\ itLimit < Len(ChainPages)
             THEN yielded = Prefix(ChainPages, itLimit + 1)
             ELSE yielded = ChainPages

C5_Witness ==
    /\ itPc = "finished"
    /\ ~itError
    /\ itHasLimit
    /\ itLimit = 1
    /\ ChainFinite
    /\ ChainPages = <<1, 3, 2>>
    /\ yielded = <<1, 3>>
    /\ nextCalls > Len(yielded) + 1

\* C6 as stated: every next() call performs exactly one GET, addressed to
\* links.next of the page obtained before.
C6_EveryNextOneGet ==
    [][nextCalls' = nextCalls + 1 =>
          /\ gets' = gets + 1
          /\ getLog' = Append(getLog, srvNext[itPage])]_vars

\* C6 amended: a next() call performs at most one GET. The first call yields
\* the starting page without a GET; every later call that yields a page
\* performs exactly one GET, addressed to links.next of the page yielded
\* before, and yields the page served there; a call that yields nothing
\* performs no GET unless that GET failed.
C6_OneGetPerFetchedPage ==
    [][nextCalls' = nextCalls + 1 =>
          /\ gets' \in {gets, gets + 1}
          /\ Len(yielded) = 0 => (gets' = gets /\ yielded' = <<StartPage>>)
          /\ gets' = gets + 1 =>
                /\ Len(yielded) >= 1
                /\ HasNext(yielded[Len(yielded)])
                /\ getLog' = Append(getLog, srvNext[yielded[Len(yielded)]])
          /\ (Len(yielded) >= 1 /\ yielded' # yielded) =>
                /\ gets' = gets + 1
                /\ yielded' = Append(yielded, srvNext[yielded[Len(yielded)]])
          /\ (yielded' = yielded /\ gets' = gets + 1) => (itError' /\ ~itError)
          /\ gets' = gets => getLog' = getLog]_vars

C6_Witness ==
    /\ Len(yielded) = 3
    /\ gets = 2
    /\ nextCalls = 3
    /\ getLog = <<2, 3>>

\* C7 as stated: for every server, consuming the iterator terminates. A
\* server holds at most MaxPages pages and a limit is at most MaxLimit, so an
\* iteration that ends does so within fewer than MaxCalls next() calls.
C7_TerminatesForEveryServer ==
    nextCalls = MaxCalls => itPc = "finished"

\* C7 amended: consuming the iterator terminates whenever a limit is given
\* or the chain of next links served from the starting page ends; it ends as
\* soon as the current page has no links.next or `limit` pages were fetched
\* after the starting page, so with a limit at most `limit` GETs are issued.
C7_TerminatesWithLimitOrEnd ==
    /\ (nextCalls = MaxCalls /\ (itHasLimit \/ ChainFinite)) => itPc = "finished"
    /\ itHasLimit => (gets <= itLimit /\ Len(yielded) <= itLimit + 1)
    /\ (itPc = "finished" /\ ~itError) =>
          \/ ~HasNext(itPage)
          \/ (itHasLimit /\ itI = itLimit /\ gets = itLimit)
    /\ itPc = "suspended" => nextCalls = Len(yielded)
    /\ \A j \in 1..(Len(yielded) - 1) :
          HasNext(yielded[j]) /\ (itHasLimit => j <= itLimit)

C7_Witness ==
    /\ itPc = "finished"
    /\ ~itError
    /\ itHasLimit
    /\ itLimit = 2
    /\ gets = 2
    /\ HasNext(itPage)
    /\ ~ChainFinite

\* C8: a page fetch answered with a bad status raises to the consumer after
\* that one GET; from then on the iterator is finished: it yields no page
\* and issues no GET, whatever the consumer calls.
C8_FetchErrorEndsIterator ==
    [][/\ (itError' /\ ~itError) =>
             /\ gets' = gets + 1
             /\ yielded' = yielded
             /\ itPc' = "finished"
       /\ itError =>
             /\ itError'
             /\ gets' = gets
             /\ getLog' = getLog
             /\ yielded' = yielded
             /\ itPc = "finished"
             /\ itPc' = "finished"]_vars

C8_Witness ==
    /\ itError
    /\ gets = 2
    /\ Len(yielded) = 2
    /\ nextCalls >= 5

RECURSIVE SumHits(_)
\* The number of items on the pages of the sequence pages.
SumHits(pages) ==
    IF pages = <<>> THEN 0
    ELSE srvHits[pages[1]] + SumHits(Tail(pages))

RECURSIVE SumHitsOver(_)
\* The number of items on the pages of the set S.
SumHitsOver(S) ==
    IF S = {} THEN 0
    ELSE LET p == CHOOSE q \in S : TRUE
         IN srvHits[p] + SumHitsOver(S \ {p})

\* hits.total as the first page reports it: the number of items of the
\* result, which lie on the pages reachable from the starting page.
HitsTotal == SumHitsOver({ChainPages[k] : k \in 1..Len(ChainPages)})

RECURSIVE ConcatPages(_)
\* The items of the server's pages 1..n, in page order.
ConcatPages(n) == IF n = 0 THEN <<>> ELSE ConcatPages(n - 1) \o ServerPage(n)

\* C9: list called with a status outside the status allow-list or a sort
\* outside the sort allow-list ends with a ValueError and no transport call;
\* with allowed or omitted values no ValueError is raised and, when list
\* ends, at least one listing request was issued.
C9_ValidationBeforeNetwork ==
    lsPc # "idle" =>
       IF \/ status \notin ({"None"} \cup {"draft", "published"})
          \/ sort \notin ({"None"} \cup
                {"bestmatch", "-bestmatch", "mostrecent", "-mostrecent"})
       THEN lsPc = "done" /\ lsOutcome = "ValueError" /\ lsCalls = 0
       ELSE /\ lsOutcome # "ValueError"
            /\ lsPc = "done" => lsCalls >= 1
            /\ lsPc = "request" => lsCalls = Len(lsLog)

C9_Witness ==
    /\ lsPc = "done"
    /\ status = "draft"
    /\ sort = "other"
    /\ lsOutcome = "ValueError"
    /\ lsCalls = 0

ListingHasNext(k) == k < Len(srvSizes)

\* The number of pages iter_pagination yields on that chain: the first page,
\* then one page per links.next.
RECURSIVE IteratorPages(_)
IteratorPages(k) == IF ListingHasNext(k) THEN IteratorPages(k + 1) ELSE k

\* C11 as stated: list fetches exactly the pages the pagination iterator
\* yields from the first page, one request each, and stops at the first page
\* that has no links.next.
C11_DrivesPaginationIterator ==
    (lsPc = "done" /\ lsOutcome = "ok") =>
        /\ lsCalls = IteratorPages(1)
        /\ ~ListingHasNext(IF lsLog[Len(lsLog)] = 0 THEN 1 ELSE lsLog[Len(lsLog)])

\* C11: list obtains its pages by repeating the listing request with the
\* query's page number: first without `page`, then page 2, 3, ...; it stops
\* at the first page whose answer is empty, so a listing of n non-empty
\* pages costs n + 1 requests, and no links.next is followed.
C11_PageNumberLoop ==
    /\ lsPc = "request" =>
          /\ lsLog = [k \in 1..lsCalls |-> IF k = 1 THEN 0 ELSE k]
          /\ \A k \in 1..Len(lsLog) : list_depositions(lsLog[k]) # <<>>
    /\ (lsPc = "done" /\ lsOutcome = "ok") =>
          /\ lsLog = [k \in 1..(Len(srvSizes) + 1) |-> IF k = 1 THEN 0 ELSE k]
          /\ list_depositions(lsLog[Len(lsLog)]) = <<>>
          /\ \A k \in 1..(Len(lsLog) - 1) : list_depositions(lsLog[k]) # <<>>

C11_Witness ==
    /\ lsPc = "done"
    /\ lsOutcome = "ok"
    /\ srvSizes = <<3, 3, 2>>
    /\ lsLog = <<0, 2, 3, 4>>
    /\ ListingHasNext(1)
    /\ ~ListingHasNext(3)


\* C27: list issues its requests with consecutive page numbers (the first
\* without `page`, then page 2, 3, ...), one request per logged page; it
\* never issues more than (number of non-empty pages + 1) requests, is still
\* requesting only while fewer than that were answered, and when it returns
\* it has issued exactly that many, the last one answered with the empty
\* page.
C27_ConsecutivePagesUntilEmpty ==
    /\ lsCalls = Len(lsLog)
    /\ \A k \in 1..Len(lsLog) : lsLog[k] = (IF k = 1 THEN 0 ELSE k)
    /\ lsCalls <= Len(srvSizes) + 1
    /\ lsPc = "request" => lsCalls <= Len(srvSizes)
    /\ (lsPc = "done" /\ lsOutcome = "ok") =>
          /\ lsCalls = Len(srvSizes) + 1
          /\ ServerPage(lsCalls) = <<>>
          /\ \A k \in 1..(lsCalls - 1) : ServerPage(k) # <<>>

C27_Witness ==
    /\ lsPc = "done"
    /\ lsOutcome = "ok"
    /\ srvSizes = <<1, 2>>
    /\ lsCalls = 3
    /\ lsLog = <<0, 2, 3>>
    /\ Len(lsResult) = 3

(***************************************************************************)
(* Further properties of Draft.upload_file.                                *)
(***************************************************************************)
\* C12: upload_file called with a filename that is neither an existing local
\* file nor a string starting with http:// or https:// ends with a ValueError
\* before any server interaction: no call of any kind is issued and no slot
\* is created.
C12_InvalidSourceRejectedFirst ==
    (upPc # "idle" /\ filename \notin {"local", "remote"}) =>
        /\ upPc = "done"
        /\ outcome = "ValueError"
        /\ calls = NoCalls
        /\ slot = "none"
        /\ upLog = <<>>
        /\ sleepLog = <<>>

C12_Witness ==
    /\ upPc = "done"
    /\ filename = "invalid"
    /\ outcome = "ValueError"
    /\ calls = NoCalls

\* C13: the slot creation is not retried. The POST is issued at most once per
\* upload_file call; when it fails, upload_file has ended with that error
\* after exactly that one POST, with no download, upload, commit, sleep,
\* slot deletion, refresh or file removal.
C13_CreateNotRetried ==
    /\ calls.create <= 1
    /\ (upPc # "idle" /\ filename \in {"local", "remote"}) => calls.create = 1
    /\ (upPc # "idle" /\ filename \in {"local", "remote"} /\ slot = "none") =>
          /\ upPc = "done"
          /\ outcome = "APIError"
          /\ calls = [NoCalls EXCEPT !.create = 1]
          /\ sleepLog = <<>>
          /\ upLog = <<>>
          /\ failures = 0

C13_Witness ==
    /\ upPc = "done"
    /\ filename = "remote"
    /\ max_retries = MaxRetries
    /\ slot = "none"
    /\ outcome = "APIError"
    /\ calls.create = 1
    /\ calls.delete = 0

UploadEvents == {"upload_ok", "upload_fail"}

CommitEvents == {"commit_ok", "commit_fail"}

\* The number of entries of log that belong to the set evs.
CountEvents(log, evs) == Cardinality({k \in 1..Len(log) : log[k] \in evs})

\* C14: every attempt starts with the upload, followed by the commit. The
\* first call of the loop and the call after every sleep is an upload; a
\* commit is issued only directly after the successful upload of the same
\* attempt, and a successful upload is followed by nothing but the commit;
\* so after a failed commit the next attempt uploads again.
C14_AttemptIsUploadThenCommit ==
    /\ CountEvents(upLog, UploadEvents) = calls.upload
    /\ CountEvents(upLog, CommitEvents) = calls.commit
    /\ upLog # <<>> => upLog[1] \in UploadEvents
    /\ upPc = "commit" => (upLog # <<>> /\ upLog[Len(upLog)] = "upload_ok")
    /\ \A k \in 1..Len(upLog) :
          /\ upLog[k] \in CommitEvents => (k > 1 /\ upLog[k - 1] = "upload_ok")
          /\ (upLog[k] = "upload_ok" /\ k < Len(upLog)) =>
                upLog[k + 1] \in CommitEvents
          /\ (upLog[k] = "sleep" /\ k < Len(upLog)) =>
                upLog[k + 1] \in UploadEvents
          /\ (upLog[k] = "commit_fail" /\ k + 1 < Len(upLog)) =>
                upLog[k + 2] \in UploadEvents

C14_Witness ==
    /\ upPc = "done"
    /\ outcome = "returned"
    /\ upLog = <<"upload_ok", "commit_fail", "sleep", "upload_ok", "commit_ok">>

\* C15: with min_delay <= max_delay, upload_file sleeps exactly once between
\* two consecutive attempts, for a duration within [min_delay, max_delay]:
\* every sleep directly follows a failed call and is followed by an upload,
\* every failed call that is not the last one is directly followed by one
\* sleep, and no sleep comes first, after the successful commit or after the
\* last failed attempt; when the loop has ended after at least one attempt
\* the number of sleeps is the number of attempts minus one.
C15_OneSleepBetweenAttempts ==
    /\ min_delay <= max_delay
    /\ CountEvents(upLog, {"sleep"}) = Len(sleepLog)
    /\ \A k \in 1..Len(sleepLog) :
          min_delay <= sleepLog[k] /\ sleepLog[k] <= max_delay
    /\ \A k \in 1..Len(upLog) :
          /\ upLog[k] = "sleep" =>
                (k > 1 /\ upLog[k - 1] \in {"upload_fail", "commit_fail"})
          /\ (upLog[k] \in {"upload_fail", "commit_fail"} /\ k < Len(upLog)) =>
                upLog[k + 1] = "sleep"
          /\ upLog[k] = "commit_ok" => k = Len(upLog)
    /\ (upPc \in {"finally", "done"} /\ upLog # <<>>) =>
          /\ upLog[Len(upLog)] # "sleep"
          /\ Len(sleepLog) = calls.upload - 1
    /\ upPc \in {"upload", "commit"} => Len(sleepLog) = failures

C15_Witness ==
    /\ upPc = "done"
    /\ exc = "MaxRetries"
    /\ min_delay = 0
    /\ max_delay = 1
    /\ calls.upload = 3
    /\ sleepLog = <<1, 0>>
    /\ upLog = <<"upload_fail", "sleep", "upload_ok", "commit_fail", "sleep",
                 "upload_fail">>

\* C25 as stated: when upload_file raises after the file slot was created,
\* the slot-deletion call was issued and the file is not committed on the
\* draft.
C25_FailureDeletesSlot ==
    (upPc = "done" /\ slot # "none" /\ outcome # "returned") =>
        /\ calls.delete = 1
        /\ slot # "committed"

\* C26 as stated: when the download of the remote source fails, no upload,
\* commit or sleep is made, the slot deletion is issued exactly once, and
\* the caller observes the download error.
C26_DownloadErrorObserved ==
    (upPc = "done" /\ exc = "DownloadError") =>
        /\ calls.upload = 0
        /\ calls.commit = 0
        /\ sleepLog = <<>>
        /\ calls.delete = 1
        /\ outcome = "DownloadError"

\* C30 as stated: the number of upload attempts never exceeds max_retries;
\* with max_retries <= 0 no upload is attempted.
C30_AttemptsWithinMaxRetries ==
    calls.upload <= (IF max_retries > 0 THEN max_retries ELSE 0)

(***************************************************************************)
(* Properties of the transport and of the entity operations.               *)
(***************************************************************************)
\* C16 as stated: every transport call (GET, POST, PUT, DELETE) whose
\* response status is not 2xx raises the typed API error; no response with
\* a status outside 200..299 is returned to the operation as a success.
C16_NonSuccessStatusRaises ==
    \A k \in 1..Len(enLog) :
        enLog[k].status \notin 200..299 => enLog[k].raised

\* C19 as stated: after Draft.publish() has succeeded, the snapshot of the
\* entity is the published record the server answered the POST with.
C19_PublishReplacesSnapshot ==
    (enPc = "done" /\ enOp = "publish" /\ enOutcome = "returned") =>
        enData = "published"

\* C20: when a request of an entity operation (refresh, update, publish,
\* edit, delete) is answered with a status of the bad-status table, the
\* operation raises the API error at once: the failed request is the last
\* request of the invocation, which has ended with that error; the requests
\* issued are the operation's own, each once and in order, so none is
\* re-issued.
C20_BadStatusEndsOperation ==
    /\ \A k \in 1..Len(enLog) :
          /\ enLog[k].status \in bad_status_codes => enLog[k].raised
          /\ enLog[k].raised =>
                (k = Len(enLog) /\ enPc = "done" /\ enOutcome = "APIError")
          /\ k <= Len(Plan(enCls, enOp))
          /\ Req(enLog[k].verb, enLog[k].link) = Plan(enCls, enOp)[k]
    /\ enOutcome = "APIError" => (enLog # <<>> /\ enLog[Len(enLog)].raised)
    /\ enOutcome = "returned" => Len(enLog) = Len(Plan(enCls, enOp))

C20_Witness ==
    /\ enPc = "done"
    /\ enCls = "record.Draft"
    /\ enOp = "refresh"
    /\ enOutcome = "APIError"
    /\ Len(enLog) = 2
    /\ enLog[1] = [verb |-> "GET", link |-> "self", status |-> 200, raised |-> FALSE]
    /\ enLog[2] = [verb |-> "GET", link |-> "files", status |-> 404, raised |-> TRUE]

C23_ErrorDescription ==
    enError # NoError =>
        LET b == enError.body
            c == enError.status
            d == enError.description
        IN /\ c \in {400, 401, 403, 404, 405, 409, 415, 422, 429, 500}
           /\ enOutcome = "APIError"
           /\ enLog[Len(enLog)].status = c
           /\ (b.parse \in {"invalid", "list"} \/ b.message = "none") =>
                 d = <<bad_status_descriptions[c]>>
           /\ (b.parse = "object" /\ b.message = "msg") =>
                 IF b.errors = "wellformed"
                 THEN d = <<"msg", "error.field", "error.message">>
                 ELSE d = <<"msg">>

C23_Witness ==
    /\ enPc = "done"
    /\ enError.status = 422
    /\ enError.body.parse = "invalid"
    /\ enError.description = <<"Resumption tokens are only valid for 2 minutes.">>

\* C29 as stated: when Record.refresh raises, on the GET of the `self` link
\* or on the following GET of the `files` link, the snapshot of the entity
\* is the snapshot held before the call.
C29_RefreshAtomic ==
    (enCls = "record.Draft" /\ enOp = "refresh" /\ enOutcome = "APIError") =>
        /\ enData = "held"
        /\ enFiles = "held"

(***************************************************************************)
(* Properties of _PagedData.                                               *)
(***************************************************************************)

\* C28: iterating `pages` of a _PagedData built over a chain of N pages
\* visits the N pages in chain order, each once; next_page() succeeds N-1
\* times after first_page(); and first_page() comes back to the starting
\* page without a request.
C28_PagesVisitChain ==
    /\ (pdMode = "pages" /\ pdPc = "done" /\ pdOutcome # "APIError")
          => pdVisited = ChainPages
    /\ (pdMode = "methods" /\ pdPc = "done" /\ pdOutcome = "StopIteration")
          => pdNextOk = Len(ChainPages) - 1
    /\ (pdPc = "ready" /\ pdMethod = "first_page")
          => (pdPage = StartPage /\ gets = 0)

(***************************************************************************)
(* Properties of load_or_create_draft.                                     *)
(***************************************************************************)
\* C17: load_or_create_draft called while the local file holds a saved draft
\* reads only the `id` from it and re-fetches the draft: the call issues one
\* GET and no POST, creates nothing, and what it returns has the id of the
\* file and the content of the server's current draft of that id, whatever
\* content the file holds.
C17_ExistingFileRefetched ==
    (ldFile.kind = "draft" /\ ldPc \in {"get", "done"}) =>
        /\ ldPosts = 0
        /\ ldCreated = 0
        /\ ldGets = (IF ldPc = "done" THEN 1 ELSE 0)
        /\ ldPc = "done" =>
              /\ ldOutcome \in {"returned", "APIError"}
              /\ ldOutcome = "returned" =>
                    /\ ldResult.id = ldFile.id
                    /\ ldResult.content = srvDrafts[ldFile.id]
              /\ ldOutcome = "APIError" => ldResult = NoResult

C17_Witness ==
    /\ ldPc = "done"
    /\ ldOutcome = "returned"
    /\ ldFile = [kind |-> "draft", id |-> 1, content |-> "v1"]
    /\ srvDrafts = <<"v2">>
    /\ ldResult.content = "v2"
    /\ ldGets = 1
    /\ ldPosts = 0

\* C18 as stated: load_or_create_draft called while the local file is absent
\* creates a draft with one POST, writes the file with the new draft's id
\* and snapshot and returns the new draft; hence calls with the same
\* filename create at most one draft in all.
C18_AbsentFileCreatedOnce ==
    /\ (ldPc = "done" /\ ldPosts = 1 /\ ldOutcome # "APIError") =>
          /\ ldOutcome = "returned"
          /\ ldFile = [kind |-> "draft", id |-> Len(srvDrafts), content |-> "new"]
          /\ ldResult.id = Len(srvDrafts)
    /\ ldPosts <= 1
    /\ ldCreated <= 1

\* C24: load_or_create_draft (through load_draft) called while the local
\* file exists but holds JSON that is not a mapping, or a mapping without
\* `id`, ends with a TypeError, respectively a ValueError, before any
\* network call: no GET and no POST is issued, and no draft is created, in
\* the first call as in a repeated one.
C24_InvalidFileRejected ==
    (ldFile.kind \in {"not_mapping", "no_id"} /\ ldPc # "idle") =>
        /\ ldPc \in {"load", "done"}
        /\ ldGets = 0
        /\ ldPosts = 0
        /\ ldCreated = 0
        /\ ldResult = NoResult
        /\ ldPc = "done" =>
              ldOutcome = (IF ldFile.kind = "not_mapping" THEN "TypeError"
                           ELSE "ValueError")

C24_Witness ==
    /\ ldPc = "done"
    /\ ldCallNo = 2
    /\ ldFile.kind = "no_id"
    /\ ldOutcome = "ValueError"
    /\ ldPosts = 0

Init ==
    /\ InitUpload /\ InitPagination /\ InitList /\ InitEntity /\ InitLoad
    /\ InitPaged

Next ==
    \/ NextUpload \/ NextPagination \/ NextList \/ NextEntity \/ NextLoad
    \/ NextPaged

Spec == Init /\ [][Next]_vars

====
